---- MODULE Spec2Model ----
(***************************************************************************)
(* A model of the enrichment pipeline of the Y Combinator people scraper   *)
(* (src/yc.py): candidate generation, the single-candidate resolver with   *)
(* bounded retries, the per-name username cache and the fan-out of one     *)
(* enrichment task per person on a cooperative scheduler; and of the       *)
(* export of the enriched persons (src/table.py): the selection of a       *)
(* person's top match and the records written to the CSV file.             *)
(*                                                                         *)
(* Strings of the program are sequences of one-character strings, so that  *)
(* concatenation, indexing and splitting are computed as the code does.    *)
(* The empty sequence stands for Python's None / "" where the code tests   *)
(* truthiness; an optional dict is a sequence of zero or one record.       *)
(***************************************************************************)
EXTENDS Integers, Sequences, FiniteSets, TLC

VARIABLES
    run,             \* where enrich_profiles is
    semaphore,       \* free permits of self.semaphore
    people,          \* the persons extract_people returned
    tasks,           \* the state of the coroutine _enrich_one(p) of each person
    profile,         \* person['profile'] of each person
    username_cache,  \* self.username_cache
    completed,       \* the tasks that finished and were not yet awaited
    enriched,        \* the list `enriched` of enrich_profiles
    resolutions,     \* per name: candidate-resolution sequences begun
    cache_writes,    \* per name: assignments to username_cache[name]
    net,             \* the lookup service: its accounts, and the transient
                     \* failures it answered with so far and at most
    gen,             \* one candidate generation, taken alone
    resolver,        \* one call of _fetch_hn_details, taken alone
    table            \* one call of src/table.py: a selection or an export

enrich_vars ==
    <<run, semaphore, people, tasks, profile, username_cache, completed, enriched,
      resolutions, cache_writes, net>>

vars == <<enrich_vars, gen, resolver, table>>

(***************************************************************************)
(* Bounds of the model.                                                    *)
(***************************************************************************)
\* the longest display name candidate generation is run on (SpecGen)
MaxNameLen == 4

\* the largest `attempts` a call of the resolver is given (SpecResolver)
MaxAttempts == 3

\* the most persons the people page lists
NumEntities == 2

\* the most lookups of a run that fail transiently
MaxTransient == 1

\* YCPeopleScraper(max_concurrency=...): the limit the run is constructed with
MaxConcurrency == 1

\* the most lookups of a run over one person that fail transiently (SpecSolo)
SoloTransient == 3

\* the longest list of matches a top match is selected from (SpecTop)
MaxMatches == 4

\* def _fetch_hn_details(self, candidate, attempts=3)
DefaultAttempts == 3

(***************************************************************************)
(* The values of gen and resolver while another part of the program runs.  *)
(***************************************************************************)
GenIdle == [state |-> "idle", name |-> <<>>, cands |-> <<>>, probed |-> <<>>]

ResolverIdle ==
    [state |-> "idle", candidate |-> <<>>, attempts |-> 0, attempt |-> 0,
     result |-> <<>>, log |-> <<>>]

TableIdle == [state |-> "idle"]

EmptyMap == [x \in {} |-> <<>>]

(***************************************************************************)
(* Characters.  "A" is an upper-case letter, "a^" a precomposed accented   *)
(* letter whose compatibility decomposition is "a" followed by the         *)
(* combining mark "^".                                                     *)
(***************************************************************************)
SPACE == " "
TAB == "\t"
Whitespace == {SPACE, TAB}
Chars == {"a", "b", "A", "a^", SPACE, TAB}

RECURSIVE Flatten(_)
Flatten(ss) == IF ss = <<>> THEN <<>> ELSE Head(ss) \o Flatten(Tail(ss))

NFKD(c) == IF c = "a^" THEN <<"a", "^">> ELSE <<c>>

combining(c) == c = "^"

lower(c) == IF c = "A" THEN "a" ELSE c

\* unicodedata.normalize('NFKD', text), drop combining marks, lower()
normalize(text) ==
    LET nf == Flatten([i \in 1..Len(text) |-> NFKD(text[i])])
        kept == SelectSeq(nf, LAMBDA c : ~combining(c))
    IN [i \in 1..Len(kept) |-> lower(kept[i])]

\* str.split() without arguments: split on runs of whitespace, no empty token
RECURSIVE SplitAcc(_, _, _)
SplitAcc(s, cur, acc) ==
    IF s = <<>>
    THEN IF cur = <<>> THEN acc ELSE Append(acc, cur)
    ELSE IF Head(s) \in Whitespace
         THEN SplitAcc(Tail(s), <<>>, IF cur = <<>> THEN acc ELSE Append(acc, cur))
         ELSE SplitAcc(Tail(s), Append(cur, Head(s)), acc)

split(s) == SplitAcc(s, <<>>, <<>>)

\* norm.replace(" ", "")
replace_space(s) == SelectSeq(s, LAMBDA c : c # SPACE)

\* the list `candidates` of find_hn_usernames, for a name with at least one token
CandidateList(norm) ==
    LET tokens == split(norm)
        first == tokens[1]
        last == tokens[Len(tokens)]
    IN << first,
          last,
          first \o last,
          last \o first,
          first \o <<".">> \o last,
          first \o <<"_">> \o last,
          <<first[1]>> \o last,
          first \o <<last[1]>>,
          replace_space(norm) >>

\* the candidates probed for a display name: none when the name has no token
candidates(full_name) ==
    LET norm == normalize(full_name)
    IN IF split(norm) = <<>> THEN <<>> ELSE CandidateList(norm)

(***************************************************************************)
(* Sequences helpers.                                                      *)
(***************************************************************************)
Range(s) == {s[i] : i \in 1..Len(s)}

NoDuplicates(s) == \A i, j \in 1..Len(s) : i # j => s[i] # s[j]

SeqsUpTo(S, n) == UNION {[1..k -> S] : k \in 0..n}

(***************************************************************************)
(* The lookup service.  One response to GET /user?id=<candidate>:          *)
(*   exc      the request or the read of the body raised (connection       *)
(*            failure, timeout); the other fields are then irrelevant      *)
(*   status   the HTTP status code                                         *)
(*   trouble  the body contains "We're having some trouble serving your    *)
(*            request"                                                     *)
(*   nosuch   the body contains "No such user."                            *)
(*   hnuser   the text of <a class="hnuser">, <<>> when the tag is absent  *)
(*   created, karma   the cell after the label, "None" when there is none  *)
(*   about    "absent": no about: cell; "ok": the cell and its value cell; *)
(*            "nosibling": the label cell without a value cell             *)
(***************************************************************************)
HTTP_OK == 200
StatusCodes == {HTTP_OK, 404}
HnUserTags == {<<>>, <<"b">>}
CreatedCells == {"None", "2020-01-01"}
KarmaCells == {"None", "12"}
AboutCells == {"absent", "ok", "nosibling"}

ExceptionResponse ==
    [exc |-> TRUE, status |-> HTTP_OK, trouble |-> FALSE, nosuch |-> FALSE,
     hnuser |-> <<>>, created |-> "None", karma |-> "None", about |-> "absent"]

Responses ==
    {ExceptionResponse} \cup
    [exc : {FALSE}, status : StatusCodes, trouble : BOOLEAN, nosuch : BOOLEAN,
     hnuser : HnUserTags, created : CreatedCells, karma : KarmaCells,
     about : AboutCells]

\* lines 216-242: the dict built from a parsed profile page
ParseDetail(r, candidate) ==
    [username |-> IF r.hnuser # <<>> THEN r.hnuser ELSE candidate,
     created |-> r.created,
     karma |-> r.karma,
     about |-> IF r.about = "ok" THEN "bio" ELSE "None"]

\* AttemptOutcome with the not-found page taken for a transient failure
AttemptOutcome_NotFoundRetried(r) ==
    IF r.exc THEN "continue"
    ELSE IF r.status # HTTP_OK THEN "continue"
    ELSE IF r.trouble \/ r.nosuch THEN "continue"
    ELSE IF r.about = "nosibling" THEN "raise"
    ELSE "detail"

\* lines 202-242: the body of one iteration of the retry loop, on response r
\*   "continue"  go on with the next iteration
\*   "none"      return None
\*   "detail"    return the parsed dict
\*   "raise"     an exception leaves _fetch_hn_details
AttemptOutcome(r) ==
    IF r.exc THEN "continue"
    ELSE IF r.status # HTTP_OK THEN "continue"
    ELSE IF r.trouble THEN "continue"
    ELSE IF r.nosuch THEN "none"
    ELSE IF r.about = "nosibling" THEN "raise"
    ELSE "detail"

\* FetchStep with one iteration too many
FetchStep_OneMore(attempt, attempts, r, candidate) ==
    LET o == AttemptOutcome(r)
    IN CASE o = "continue" /\ attempt <= attempts -> [kind |-> "retry", value |-> <<>>]
         [] o = "continue" /\ attempt > attempts -> [kind |-> "return", value |-> <<>>]
         [] o = "none" -> [kind |-> "return", value |-> <<>>]
         [] o = "raise" -> [kind |-> "raise", value |-> <<>>]
         [] o = "detail" -> [kind |-> "return", value |-> <<ParseDetail(r, candidate)>>]

\* lines 200-243: the loop `for _ in range(attempts)` at its attempt-th
\* iteration, on response r
\*   kind "retry": another lookup is issued; "return": value is the result (a
\*   sequence of zero or one dict); "raise": the call raises
FetchStep(attempt, attempts, r, candidate) ==
    LET o == AttemptOutcome(r)
    IN CASE o = "continue" /\ attempt < attempts -> [kind |-> "retry", value |-> <<>>]
         [] o = "continue" /\ attempt >= attempts -> [kind |-> "return", value |-> <<>>]
         [] o = "none" -> [kind |-> "return", value |-> <<>>]
         [] o = "raise" -> [kind |-> "raise", value |-> <<>>]
         [] o = "detail" -> [kind |-> "return", value |-> <<ParseDetail(r, candidate)>>]

\* what a response shows of its class
Observe(r) == [exc |-> r.exc, status |-> r.status, trouble |-> r.trouble, nosuch |-> r.nosuch]

(***************************************************************************)
(* The enrichment run: enrich_profiles and one task _enrich_one per        *)
(* person, on asyncio's cooperative scheduler.  A task runs without        *)
(* interruption from one await of a network request to the next, so every  *)
(* action below is the code between two suspension points.                 *)
(***************************************************************************)
Names == {<<"a", SPACE, "b">>, <<"A", SPACE, "b">>, <<>>}

\* the persons an extracted page can list: a display name, and whether the
\* entry is a link to a detail page
PersonInputs ==
    {[name |-> <<"a", SPACE, "b">>, profile_link |-> TRUE],
     [name |-> <<"a", SPACE, "b">>, profile_link |-> FALSE],
     [name |-> <<"A", SPACE, "b">>, profile_link |-> FALSE],
     [name |-> <<>>, profile_link |-> TRUE]}

\* the id parameters a "yc" social link can carry
ExplicitIds == {<<"a">>}

\* the accounts of the lookup service: a lookup of any other id is never
\* answered with a profile page
Accounts == {<<"a">>}

\* lines 328-345: the social links a detail page yields; url.id is the id
\* parameter of the link's query string, <<>> when it has none.  A failed
\* fetch or a page without the links block yields the empty map.
SocialLinkMaps ==
    {EmptyMap} \cup {[x \in {"yc"} |-> [id |-> e]] : e \in ExplicitIds \cup {<<>>}}

\* lines 348-353
MainHn(social_links) ==
    IF "yc" \in DOMAIN social_links THEN social_links["yc"].id ELSE <<>>

\* the lookup responses drawn during a run, one for each way a lookup can end
\* and each username it can yield: an exception, the transient-error page, the
\* not-found page, and the profile pages (SpecResolver draws every response)
EnrichResponses ==
    {ExceptionResponse} \cup
    {r \in Responses :
        /\ ~r.exc /\ r.status = HTTP_OK
        /\ r.created = "2020-01-01" /\ r.karma = "12" /\ r.about # "absent"
        /\ ~(r.trouble /\ r.nosuch)
        /\ (r.trouble \/ r.nosuch) => (r.hnuser = <<>> /\ r.about = "ok")}

\* the responses a lookup of `candidate` can get: a profile page only for an
\* account, and at most net.budget lookups of a run fail transiently
NetAllows(r, candidate) ==
    /\ AttemptOutcome(r) = "continue" => net.transient < net.budget
    /\ AttemptOutcome(r) \in {"detail", "raise"} => candidate \in net.accounts

NetAfter(r) ==
    IF AttemptOutcome(r) = "continue" THEN [net EXCEPT !.transient = @ + 1] ELSE net

NewTask ==
    [pc |-> "new", social_links |-> EmptyMap, main_hn |-> <<>>, hn_profiles |-> <<>>,
     candidates |-> <<>>, idx |-> 0, attempt |-> 0, details_list |-> <<>>,
     variants |-> <<>>]

EmptyProfile == [social_links |-> EmptyMap, hn_profiles |-> <<>>]

EnrichInit ==
    /\ run = "init"
    /\ semaphore = MaxConcurrency
    /\ people = <<>>
    /\ tasks = <<>>
    /\ profile = <<>>
    /\ username_cache = EmptyMap
    /\ completed = <<>>
    /\ enriched = <<>>
    /\ resolutions = [n \in Names |-> 0]
    /\ cache_writes = [n \in Names |-> 0]
    /\ net = [transient |-> 0, budget |-> MaxTransient, accounts |-> Accounts]

\* the enrichment variables while the generator or the resolver is taken alone
EnrichIdle ==
    /\ run = "idle"
    /\ semaphore = MaxConcurrency
    /\ people = <<>>
    /\ tasks = <<>>
    /\ profile = <<>>
    /\ username_cache = EmptyMap
    /\ completed = <<>>
    /\ enriched = <<>>
    /\ resolutions = [n \in Names |-> 0]
    /\ cache_writes = [n \in Names |-> 0]
    /\ net = [transient |-> 0, budget |-> MaxTransient, accounts |-> Accounts]

\* CacheHit that takes an empty cached list for a miss
CacheHit_Truthy(cache, full_name) ==
    full_name \in DOMAIN cache /\ cache[full_name] # <<>>

\* line 148: full_name in self.username_cache
CacheHit(cache, full_name) == full_name \in DOMAIN cache

\* line 185: self.username_cache[full_name] = unique
CacheStore(cache, full_name, unique) ==
    [n \in DOMAIN cache \cup {full_name} |-> IF n = full_name THEN unique ELSE cache[n]]

\* lines 176-183: dedupe by username, first seen wins
RECURSIVE UniqueAcc(_, _)
UniqueAcc(details, unique) ==
    IF details = <<>> THEN unique
    ELSE LET info == Head(details)
             seen == {unique[k].username : k \in 1..Len(unique)}
         IN UniqueAcc(Tail(details),
                      IF info.username # <<>> /\ info.username \notin seen
                      THEN Append(unique, info) ELSE unique)

UniqueByUsername(details) == UniqueAcc(details, <<>>)

\* FilterVariants that keeps a variant whose username is the explicit id
FilterVariants_KeepsExplicitId(variants, main_hn) ==
    SelectSeq(variants, LAMBDA info : info.username # <<>>)

\* lines 363-366: the variants appended to hn_profiles
FilterVariants(variants, main_hn) ==
    SelectSeq(variants, LAMBDA info : info.username # <<>> /\ info.username # main_hn)

\* lines 105-108 of fetch_html: take a permit and request the people page
FetchHtmlIssue ==
    /\ run = "init"
    /\ semaphore > 0
    /\ semaphore' = semaphore - 1
    /\ run' = "fetching"
    /\ UNCHANGED <<people, tasks, profile, username_cache, completed, enriched,
                   resolutions, cache_writes, net, gen, resolver, table>>

\* lines 106-107: the request fails or raise_for_status raises; the permit is
\* given back and the exception ends the run
FetchHtmlFail ==
    /\ run = "fetching"
    /\ semaphore' = semaphore + 1
    /\ run' = "aborted"
    /\ UNCHANGED <<people, tasks, profile, username_cache, completed, enriched,
                   resolutions, cache_writes, net, gen, resolver, table>>

\* lines 108, 245-300 and 311-314: the page arrives, the persons are
\* extracted with an empty profile each, and enrich_profiles makes one
\* coroutine per person and hands them all to as_completed
ExtractPeople ==
    /\ run = "fetching"
    /\ semaphore' = semaphore + 1
    /\ \E ps \in SeqsUpTo(PersonInputs, NumEntities) :
          /\ people' = ps
          /\ tasks' = [i \in 1..Len(ps) |-> NewTask]
          /\ profile' = [i \in 1..Len(ps) |-> EmptyProfile]
          /\ run' = IF ps = <<>> THEN "returned" ELSE "enriching"
    /\ UNCHANGED <<username_cache, completed, enriched, resolutions, cache_writes, net,
                   gen, resolver, table>>

\* Finish that puts the variants before the match of the explicit lookup
Finish_VariantsFirst(i, t, variants) ==
    /\ tasks' = [tasks EXCEPT ![i] =
                    [NewTask EXCEPT !.pc = "done", !.social_links = t.social_links,
                                    !.main_hn = t.main_hn, !.hn_profiles = t.hn_profiles,
                                    !.variants = variants]]
    /\ profile' = [profile EXCEPT ![i] =
                    [social_links |-> t.social_links,
                     hn_profiles |-> FilterVariants(variants, t.main_hn) \o t.hn_profiles]]
    /\ completed' = Append(completed, i)

\* lines 362-372: find_hn_usernames returned `variants`; the profile is
\* updated and the coroutine returns.  The finished task keeps the result of
\* its explicit lookup in hn_profiles and what the call returned in variants.
Finish(i, t, variants) ==
    /\ tasks' = [tasks EXCEPT ![i] =
                    [NewTask EXCEPT !.pc = "done", !.social_links = t.social_links,
                                    !.main_hn = t.main_hn, !.hn_profiles = t.hn_profiles,
                                    !.variants = variants]]
    /\ profile' = [profile EXCEPT ![i] =
                    [social_links |-> t.social_links,
                     hn_profiles |-> t.hn_profiles \o FilterVariants(variants, t.main_hn)]]
    /\ completed' = Append(completed, i)

\* an exception leaves _enrich_one
Raise(i) ==
    /\ tasks' = [tasks EXCEPT ![i].pc = "raised"]
    /\ completed' = Append(completed, i)
    /\ UNCHANGED <<profile, username_cache, resolutions, cache_writes>>

\* FindEntry that stores the empty result of a name without tokens
FindEntry_CachesEmpty(i, t) ==
    LET full_name == people[i].name
        cands == candidates(full_name)
    IN IF CacheHit(username_cache, full_name)
       THEN /\ Finish(i, t, username_cache[full_name])
            /\ UNCHANGED <<username_cache, resolutions, cache_writes>>
       ELSE IF cands = <<>>
       THEN /\ Finish(i, t, <<>>)
            /\ username_cache' = CacheStore(username_cache, full_name, <<>>)
            /\ UNCHANGED <<resolutions, cache_writes>>
       ELSE /\ tasks' = [tasks EXCEPT ![i] =
                           [t EXCEPT !.pc = "cand", !.candidates = cands, !.idx = 1,
                                     !.attempt = 1, !.details_list = <<>>]]
            /\ resolutions' = [resolutions EXCEPT ![full_name] = @ + 1]
            /\ UNCHANGED <<profile, username_cache, completed, cache_writes>>

\* FindEntry that starts the lookups at the second candidate
FindEntry_SkipsFirst(i, t) ==
    LET full_name == people[i].name
        cands == candidates(full_name)
    IN IF CacheHit(username_cache, full_name)
       THEN /\ Finish(i, t, username_cache[full_name])
            /\ UNCHANGED <<username_cache, resolutions, cache_writes>>
       ELSE IF cands = <<>>
       THEN /\ Finish(i, t, <<>>)
            /\ UNCHANGED <<username_cache, resolutions, cache_writes>>
       ELSE /\ tasks' = [tasks EXCEPT ![i] =
                           [t EXCEPT !.pc = "cand", !.candidates = cands, !.idx = 2,
                                     !.attempt = 1, !.details_list = <<>>]]
            /\ resolutions' = [resolutions EXCEPT ![full_name] = @ + 1]
            /\ UNCHANGED <<profile, username_cache, completed, cache_writes>>

\* lines 362 and 148-172: the call find_hn_usernames(person['name']) up to its
\* first await; t is the task's state when the call is made
FindEntry(i, t) ==
    LET full_name == people[i].name
        cands == candidates(full_name)
    IN IF CacheHit(username_cache, full_name)
       THEN /\ Finish(i, t, username_cache[full_name])
            /\ UNCHANGED <<username_cache, resolutions, cache_writes>>
       ELSE IF cands = <<>>
       THEN /\ Finish(i, t, <<>>)
            /\ UNCHANGED <<username_cache, resolutions, cache_writes>>
       ELSE /\ tasks' = [tasks EXCEPT ![i] =
                           [t EXCEPT !.pc = "cand", !.candidates = cands, !.idx = 1,
                                     !.attempt = 1, !.details_list = <<>>]]
            /\ resolutions' = [resolutions EXCEPT ![full_name] = @ + 1]
            /\ UNCHANGED <<profile, username_cache, completed, cache_writes>>

\* every task made its first step: as_completed schedules them all before
\* the event loop polls the network
AllStarted == \A j \in DOMAIN tasks : tasks[j].pc # "new"

\* lines 328-333 (and 348-362 without a link): the first step of a task
StartTask(i) ==
    /\ run = "enriching"
    /\ tasks[i].pc = "new"
    /\ IF people[i].profile_link
       THEN /\ tasks' = [tasks EXCEPT ![i].pc = "detail"]
            /\ UNCHANGED <<profile, username_cache, completed, resolutions, cache_writes>>
       ELSE FindEntry(i, tasks[i])
    /\ UNCHANGED <<run, semaphore, people, enriched, net, gen, resolver, table>>

\* lines 333-358: the detail page request completes (a response, an error
\* status or an exception) and yields the social links sl
DetailResponse(i) ==
    /\ run = "enriching"
    /\ AllStarted
    /\ tasks[i].pc = "detail"
    /\ \E sl \in SocialLinkMaps :
          LET t == [tasks[i] EXCEPT !.social_links = sl, !.main_hn = MainHn(sl)]
          IN IF t.main_hn # <<>>
             THEN /\ tasks' = [tasks EXCEPT ![i] = [t EXCEPT !.pc = "explicit", !.attempt = 1]]
                  /\ UNCHANGED <<profile, username_cache, completed, resolutions,
                                 cache_writes>>
             ELSE FindEntry(i, t)
    /\ UNCHANGED <<run, semaphore, people, enriched, net, gen, resolver, table>>

\* lines 358-362: a lookup of the explicit id completes
ExplicitResponse(i) ==
    /\ run = "enriching"
    /\ AllStarted
    /\ tasks[i].pc = "explicit"
    /\ \E r \in EnrichResponses :
          /\ NetAllows(r, tasks[i].main_hn)
          /\ net' = NetAfter(r)
          /\ LET t == tasks[i]
                 s == FetchStep(t.attempt, DefaultAttempts, r, t.main_hn)
             IN CASE s.kind = "retry" ->
                       /\ tasks' = [tasks EXCEPT ![i].attempt = @ + 1]
                       /\ UNCHANGED <<profile, username_cache, completed, resolutions,
                                      cache_writes>>
                  [] s.kind = "raise" -> Raise(i)
                  [] s.kind = "return" ->
                       FindEntry(i, [t EXCEPT !.hn_profiles = s.value, !.attempt = 0])
    /\ UNCHANGED <<run, semaphore, people, enriched, gen, resolver, table>>

\* lines 171-186 and 362-372: a lookup of the current candidate completes
CandidateResponse(i) ==
    /\ run = "enriching"
    /\ AllStarted
    /\ tasks[i].pc = "cand"
    /\ \E r \in EnrichResponses :
          /\ NetAllows(r, tasks[i].candidates[tasks[i].idx])
          /\ net' = NetAfter(r)
          /\ LET t == tasks[i]
                 full_name == people[i].name
                 cands == t.candidates
                 s == FetchStep(t.attempt, DefaultAttempts, r, cands[t.idx])
                 details == t.details_list \o s.value
                 unique == UniqueByUsername(details)
             IN CASE s.kind = "retry" ->
                       /\ tasks' = [tasks EXCEPT ![i].attempt = @ + 1]
                       /\ UNCHANGED <<profile, username_cache, completed, resolutions,
                                      cache_writes>>
                  [] s.kind = "raise" -> Raise(i)
                  [] s.kind = "return" /\ t.idx < Len(cands) ->
                       /\ tasks' = [tasks EXCEPT ![i] =
                                      [t EXCEPT !.idx = @ + 1, !.attempt = 1,
                                                !.details_list = details]]
                       /\ UNCHANGED <<profile, username_cache, completed, resolutions,
                                      cache_writes>>
                  [] s.kind = "return" /\ t.idx >= Len(cands) ->
                       /\ username_cache' = CacheStore(username_cache, full_name, unique)
                       /\ cache_writes' = [cache_writes EXCEPT ![full_name] = @ + 1]
                       /\ Finish(i, t, unique)
                       /\ UNCHANGED resolutions
    /\ UNCHANGED <<run, semaphore, people, enriched, gen, resolver, table>>

\* Collect that leaves the awaited task among the finished ones
Collect_KeepsQueue ==
    /\ run = "enriching"
    /\ completed # <<>>
    /\ LET i == Head(completed)
       IN IF tasks[i].pc = "raised"
          THEN /\ run' = "aborted"
               /\ UNCHANGED enriched
          ELSE /\ enriched' = Append(enriched, i)
               /\ run' = IF Len(enriched) + 1 = Len(people) THEN "returned" ELSE "enriching"
    /\ UNCHANGED <<completed, semaphore, people, tasks, profile, username_cache,
                   resolutions, cache_writes, net, gen, resolver, table>>

\* lines 314-317: enrich_profiles awaits the next finished task; its result is
\* appended, its exception leaves enrich_profiles; after the last one
\* self.people is set and the list returned
Collect ==
    /\ run = "enriching"
    /\ completed # <<>>
    /\ LET i == Head(completed)
       IN IF tasks[i].pc = "raised"
          THEN /\ run' = "aborted"
               /\ UNCHANGED enriched
          ELSE /\ enriched' = Append(enriched, i)
               /\ run' = IF Len(enriched) + 1 = Len(people) THEN "returned" ELSE "enriching"
    /\ completed' = Tail(completed)
    /\ UNCHANGED <<semaphore, people, tasks, profile, username_cache, resolutions,
                   cache_writes, net, gen, resolver, table>>

Init == EnrichInit /\ gen = GenIdle /\ resolver = ResolverIdle /\ table = TableIdle

Next ==
    \/ FetchHtmlIssue
    \/ FetchHtmlFail
    \/ ExtractPeople
    \/ \E i \in DOMAIN tasks : StartTask(i)
    \/ \E i \in DOMAIN tasks : DetailResponse(i)
    \/ \E i \in DOMAIN tasks : ExplicitResponse(i)
    \/ \E i \in DOMAIN tasks : CandidateResponse(i)
    \/ Collect

Spec == Init /\ [][Next]_vars

(***************************************************************************)
(* enrich_profiles(limit=1): the run over the first person of the page,    *)
(* against a lookup service with two accounts that fails transiently up to *)
(* SoloTransient times, so that a lookup can use up its attempts.          *)
(***************************************************************************)
\* "^" alone is a name of one combining mark: its normal form is empty
SoloNames == {<<"a", SPACE, "b">>, <<>>, <<"^">>}

SoloInputs == [name : SoloNames, profile_link : BOOLEAN]

SoloAccounts == {<<"a">>, <<"b">>}

SoloInit ==
    /\ run = "init"
    /\ semaphore = MaxConcurrency
    /\ people = <<>>
    /\ tasks = <<>>
    /\ profile = <<>>
    /\ username_cache = EmptyMap
    /\ completed = <<>>
    /\ enriched = <<>>
    /\ resolutions = [n \in SoloNames |-> 0]
    /\ cache_writes = [n \in SoloNames |-> 0]
    /\ net = [transient |-> 0, budget |-> SoloTransient, accounts |-> SoloAccounts]
    /\ gen = GenIdle
    /\ resolver = ResolverIdle
    /\ table = TableIdle

\* lines 108, 245-300 and 311-314 with limit = 1: entries[:limit] keeps the
\* first entry of the page, if it lists any
ExtractOne ==
    /\ run = "fetching"
    /\ semaphore' = semaphore + 1
    /\ \E ps \in {<<>>} \cup {<<p>> : p \in SoloInputs} :
          /\ people' = ps
          /\ tasks' = [i \in 1..Len(ps) |-> NewTask]
          /\ profile' = [i \in 1..Len(ps) |-> EmptyProfile]
          /\ run' = IF ps = <<>> THEN "returned" ELSE "enriching"
    /\ UNCHANGED <<username_cache, completed, enriched, resolutions, cache_writes, net,
                   gen, resolver, table>>

SoloNext ==
    \/ FetchHtmlIssue
    \/ FetchHtmlFail
    \/ ExtractOne
    \/ \E i \in DOMAIN tasks : StartTask(i)
    \/ \E i \in DOMAIN tasks : DetailResponse(i)
    \/ \E i \in DOMAIN tasks : ExplicitResponse(i)
    \/ \E i \in DOMAIN tasks : CandidateResponse(i)
    \/ Collect

SpecSolo == SoloInit /\ [][SoloNext]_vars

\* every request completes and the event loop runs every task that can run:
\* a step that stays possible is eventually taken
SpecSoloFair == SoloInit /\ [][SoloNext]_vars /\ WF_vars(SoloNext)

(***************************************************************************)
(* One call _fetch_hn_details(candidate, attempts), for attempts in        *)
(* 1..MaxAttempts.  `attempt` counts the lookups issued, `log` holds what  *)
(* each completed lookup showed.                                           *)
(***************************************************************************)
ResolverCandidates == {<<"a">>, <<"a", "b">>}

ResolverInit ==
    /\ resolver \in {[state |-> "inflight", candidate |-> c, attempts |-> n, attempt |-> 1,
                      result |-> <<>>, log |-> <<>>] :
                        c \in ResolverCandidates, n \in 1..MaxAttempts}
    /\ gen = GenIdle
    /\ table = TableIdle
    /\ EnrichIdle

ResolverStep(r) ==
    LET s == FetchStep(resolver.attempt, resolver.attempts, r, resolver.candidate)
        l == Append(resolver.log, Observe(r))
    IN CASE s.kind = "retry" ->
              [resolver EXCEPT !.attempt = @ + 1, !.log = l]
         [] s.kind = "return" ->
              [resolver EXCEPT !.state = "returned", !.result = s.value, !.log = l]
         [] s.kind = "raise" ->
              [resolver EXCEPT !.state = "raised", !.log = l]

\* the lookup in flight completes with some response
ResolverResponse ==
    /\ resolver.state = "inflight"
    /\ \E r \in Responses : resolver' = ResolverStep(r)
    /\ UNCHANGED <<enrich_vars, gen, table>>

ResolverNext == ResolverResponse

SpecResolver == ResolverInit /\ [][ResolverNext]_vars

(***************************************************************************)
(* Candidate generation and probing order of find_hn_usernames, for every  *)
(* display name over Chars of length at most MaxNameLen.                   *)
(***************************************************************************)
GenInit ==
    /\ gen \in {[state |-> "called", name |-> n, cands |-> <<>>, probed |-> <<>>] :
                  n \in SeqsUpTo(Chars, MaxNameLen)}
    /\ resolver = ResolverIdle
    /\ table = TableIdle
    /\ EnrichIdle

\* lines 151-168: normalise, split, build the candidate list
GenCandidates ==
    /\ gen.state = "called"
    /\ gen' = [gen EXCEPT !.cands = candidates(gen.name),
                          !.state = IF candidates(gen.name) = <<>>
                                    THEN "returned" ELSE "probing"]
    /\ UNCHANGED <<enrich_vars, resolver, table>>

\* lines 171-174: one iteration of the loop over the candidates
GenProbe ==
    /\ gen.state = "probing"
    /\ LET c == gen.cands[Len(gen.probed) + 1]
           p == Append(gen.probed, c)
       IN gen' = [gen EXCEPT !.probed = p,
                             !.state = IF Len(p) = Len(gen.cands)
                                       THEN "returned" ELSE "probing"]
    /\ UNCHANGED <<enrich_vars, resolver, table>>

GenNext == GenCandidates \/ GenProbe

SpecGen == GenInit /\ [][GenNext]_vars

(***************************************************************************)
(* src/table.py.  A match is a dict of the JSON file the scraper wrote;    *)
(* its karma is None (<<>>) or a text (<<text>>), as json.load returns it. *)
(***************************************************************************)
Digits == <<"0", "1", "2", "3", "4", "5", "6", "7", "8", "9">>

IsDigit(c) == \E d \in 1..Len(Digits) : Digits[d] = c

DigitValue(c) == (CHOOSE d \in 1..Len(Digits) : Digits[d] = c) - 1

RECURSIVE DecimalAcc(_, _)
DecimalAcc(text, acc) ==
    IF text = <<>> THEN acc
    ELSE DecimalAcc(Tail(text), acc * Len(Digits) + DigitValue(Head(text)))

\* int(value) of line 23, on the karma of a match:
\*   None raises TypeError, a text of decimal digits is its number, any other
\*   text raises ValueError
int(karma) ==
    IF karma = <<>> THEN [kind |-> "TypeError", value |-> 0]
    ELSE IF karma[1] # <<>> /\ \A k \in 1..Len(karma[1]) : IsDigit(karma[1][k])
    THEN [kind |-> "int", value |-> DecimalAcc(karma[1], 0)]
    ELSE [kind |-> "ValueError", value |-> 0]

\* max(hn_profiles, key=...) of line 23: the keys are computed from the first
\* match on, and the first int() that raises ends the call; otherwise the
\* first match with the largest key is returned
Max(hn_profiles) ==
    LET key == [k \in 1..Len(hn_profiles) |-> int(hn_profiles[k].karma)]
        failed == {k \in 1..Len(hn_profiles) : key[k].kind # "int"}
    IN IF failed # {}
       THEN LET f == CHOOSE k \in failed : \A j \in failed : k <= j
            IN [kind |-> key[f].kind, value |-> <<>>]
       ELSE LET best == CHOOSE k \in 1..Len(hn_profiles) :
                            /\ \A j \in 1..Len(hn_profiles) : key[j].value <= key[k].value
                            /\ \A j \in 1..(k - 1) : key[j].value < key[k].value
            IN [kind |-> "return", value |-> <<hn_profiles[best]>>]

\* lines 18-25: kind "return" with value a sequence of zero (None) or one
\* match, or kind "raise" when an exception leaves the function
get_top_username(hn_profiles) ==
    IF hn_profiles = <<>> THEN [kind |-> "return", value |-> <<>>]
    ELSE LET m == Max(hn_profiles)
         IN CASE m.kind = "return" -> m
              [] m.kind = "ValueError" -> [kind |-> "return", value |-> <<>>]
              [] m.kind = "TypeError" -> [kind |-> "raise", value |-> <<>>]

(***************************************************************************)
(* One call get_top_username(profile), for every list of at most           *)
(* MaxMatches matches.                                                     *)
(***************************************************************************)
\* the karma of a match: None, "5", "12", and a text that is no number
KarmaValues == {<<>>, << <<"5">> >>, << <<"1", "2">> >>, << <<"x">> >>}

TableMatches == [username : {<<"a">>, <<"b">>}, karma : KarmaValues]

TopInit ==
    /\ table \in {[state |-> "called", hn_profiles |-> h, result |-> <<>>] :
                    h \in SeqsUpTo(TableMatches, MaxMatches)}
    /\ gen = GenIdle
    /\ resolver = ResolverIdle
    /\ EnrichIdle

TopSelect ==
    /\ table.state = "called"
    /\ LET r == get_top_username(table.hn_profiles)
       IN table' = [table EXCEPT !.state = IF r.kind = "raise" THEN "raised" ELSE "returned",
                                 !.result = r.value]
    /\ UNCHANGED <<enrich_vars, gen, resolver>>

TopNext == TopSelect

SpecTop == TopInit /\ [][TopNext]_vars

(***************************************************************************)
(* One call export_to_csv(users, csv_path): `rows` are the records written *)
(* after the header, `pos` the person the loop is at.                      *)
(***************************************************************************)
\* the domain of line 41
EmailDomain == <<"@", "ycombinator.com">>

\* the profiles of the exported persons: no match, a match with and without
\* a username, a match whose karma is no number or absent, and two matches
ExportProfiles ==
    {<<>>,
     <<[username |-> <<"a">>, karma |-> << <<"5">> >>]>>,
     <<[username |-> <<>>, karma |-> << <<"5">> >>]>>,
     <<[username |-> <<"a">>, karma |-> << <<"x">> >>]>>,
     <<[username |-> <<"a">>, karma |-> <<>>]>>,
     <<[username |-> <<"a">>, karma |-> << <<"5">> >>],
       [username |-> <<"b">>, karma |-> << <<"1", "2">> >>]>>}

ExportUsers ==
    [name : {<<"a", SPACE, "b">>, <<>>}, profile : [hn_profiles : ExportProfiles]]

\* lines 40-51: the record of a person whose top match is top_profile
Row(person, top_profile) ==
    LET username == top_profile.username
    IN [Name |-> person.name,
        HN_Username |-> username,
        Email |-> IF username # <<>> THEN username \o EmailDomain ELSE <<>>,
        Karma |-> top_profile.karma]

ExportInit ==
    /\ table \in {[state |-> "writing", users |-> u, pos |-> 1, rows |-> <<>>] :
                    u \in SeqsUpTo(ExportUsers, NumEntities)}
    /\ gen = GenIdle
    /\ resolver = ResolverIdle
    /\ EnrichIdle

\* lines 34-51: one iteration of the loop over the persons
ExportPerson ==
    /\ table.state = "writing"
    /\ table.pos <= Len(table.users)
    /\ LET person == table.users[table.pos]
           top == get_top_username(person.profile.hn_profiles)
       IN CASE top.kind = "raise" -> table' = [table EXCEPT !.state = "raised"]
            [] top.kind = "return" /\ top.value = <<>> ->
                  table' = [table EXCEPT !.pos = @ + 1]
            [] top.kind = "return" /\ top.value # <<>> ->
                  table' = [table EXCEPT !.pos = @ + 1,
                                         !.rows = Append(@, Row(person, top.value[1]))]
    /\ UNCHANGED <<enrich_vars, gen, resolver>>

\* the loop ends and the file is closed
ExportClose ==
    /\ table.state = "writing"
    /\ table.pos > Len(table.users)
    /\ table' = [table EXCEPT !.state = "closed"]
    /\ UNCHANGED <<enrich_vars, gen, resolver>>

ExportNext == ExportPerson \/ ExportClose

SpecExport == ExportInit /\ [][ExportNext]_vars

(***************************************************************************)
(* Properties of the resolver (SpecResolver).                              *)
(***************************************************************************)
\* a completed lookup that the claims call transient: an exception or timeout,
\* or a body with the transient-service-error marker
TransientObs(o) == o.exc \/ o.trouble

\* a completed lookup whose body carries the hard not-found marker
NotFoundObs(o) == ~o.exc /\ o.nosuch

\* ... and that the resolver reads as such: status 200, no transient marker
NotFoundPageObs(o) == ~o.exc /\ o.status = HTTP_OK /\ ~o.trouble /\ o.nosuch

AllTransient(log) == \A i \in 1..Len(log) : TransientObs(log[i])

\* C5: the single-candidate resolver never raises to its caller: whatever the
\* outcomes of its attempts, it returns a match or an absent result.
C5_ResolverNeverRaises == resolver.state # "raised"

\* C6 (as stated): whenever a completed lookup carries the hard not-found
\* marker, whatever its status code, it is the last lookup of the call and
\* the call has returned the absent result.
C6_NotFoundMarkerStops ==
    \A i \in 1..Len(resolver.log) :
        NotFoundObs(resolver.log[i]) =>
            /\ i = Len(resolver.log)
            /\ resolver.attempt = i
            /\ resolver.state = "returned"
            /\ resolver.result = <<>>

\* C6 (amended): whenever a completed lookup has status 200 and a body with
\* the hard not-found marker and without the transient-error marker, it is
\* the last lookup of the call, however many attempts remain, and the call
\* has returned the absent result.
C6_NotFoundPageStops ==
    \A i \in 1..Len(resolver.log) :
        NotFoundPageObs(resolver.log[i]) =>
            /\ i = Len(resolver.log)
            /\ resolver.attempt = i
            /\ resolver.state = "returned"
            /\ resolver.result = <<>>

\* a not-found page answered the first lookup of a call with attempts left
C6_Witness ==
    /\ resolver.state = "returned"
    /\ Len(resolver.log) = 1
    /\ NotFoundPageObs(resolver.log[1])
    /\ resolver.attempts > 1

\* C7: a call never performs more than `attempts` lookups, and when every
\* completed lookup was transient it goes on until exactly `attempts` lookups
\* are done and then returns the absent result.
C7_ExactlyMaxAttempts ==
    resolver.state # "idle" =>
        /\ resolver.attempt <= resolver.attempts
        /\ Len(resolver.log) <= resolver.attempts
        /\ AllTransient(resolver.log) =>
              IF Len(resolver.log) = resolver.attempts
              THEN /\ resolver.state = "returned"
                   /\ resolver.result = <<>>
                   /\ resolver.attempt = resolver.attempts
              ELSE /\ resolver.state = "inflight"
                   /\ resolver.attempt = Len(resolver.log) + 1

\* three transient lookups in a row with attempts = 3
C7_Witness ==
    /\ resolver.state = "returned"
    /\ resolver.attempts = DefaultAttempts
    /\ Len(resolver.log) = DefaultAttempts
    /\ AllTransient(resolver.log)
    /\ resolver.result = <<>>

(***************************************************************************)
(* Properties of candidate generation (SpecGen).                           *)
(***************************************************************************)
\* s without the later occurrences of its elements
RECURSIVE DedupAcc(_, _)
DedupAcc(s, acc) ==
    IF s = <<>> THEN acc
    ELSE DedupAcc(Tail(s), IF Head(s) \in Range(acc) THEN acc ELSE Append(acc, Head(s)))

Dedup(s) == DedupAcc(s, <<>>)

\* the nine forms of the candidate set, from the tokens of the normalised name
NineForms(tokens) ==
    LET first == tokens[1]
        last == tokens[Len(tokens)]
    IN << first, last, first \o last, last \o first,
          first \o <<".">> \o last, first \o <<"_">> \o last,
          <<first[1]>> \o last, first \o <<last[1]>>, Flatten(tokens) >>

\* C10: the candidates probed in one resolution of a name are the nine forms
\* in their order with later duplicates removed: no candidate is looked up
\* twice.
C10_ProbedDeduplicated ==
    gen.state = "returned" =>
        LET tokens == split(normalize(gen.name))
        IN /\ NoDuplicates(gen.probed)
           /\ gen.probed = IF tokens = <<>> THEN <<>> ELSE Dedup(NineForms(tokens))

(***************************************************************************)
(* Properties of the enrichment run (Spec).                                *)
(***************************************************************************)
\* the tasks that started and did not finish: each has one request in flight
Active == {i \in DOMAIN tasks : tasks[i].pc \in {"detail", "explicit", "cand"}}

BeforeFind == {"new", "detail", "explicit"}

Usernames(matches) == [k \in 1..Len(matches) |-> matches[k].username]

\* C1: for every display name, at most one candidate-resolution sequence is
\* run, however many tasks ask for the name concurrently, and all tasks that
\* asked for it got the same sequence.
C1_SingleResolutionPerName ==
    \A i, j \in DOMAIN tasks :
        people[i].name = people[j].name =>
            /\ resolutions[people[i].name] <= 1
            /\ (tasks[i].pc = "done" /\ tasks[j].pc = "done")
                  => tasks[i].variants = tasks[j].variants

\* C2: at every moment the number of active enrichment tasks, and so of
\* enrichment requests in flight, is at most max_concurrency.
C2_ActiveWithinLimit == Cardinality(Active) <= MaxConcurrency

\* C3: the identity matches of a profile never hold two entries with the same
\* resolved username.
C3_ProfileUsernamesUnique ==
    \A i \in DOMAIN profile : NoDuplicates(Usernames(profile[i].hn_profiles))

\* C4: a failure while enriching one person never aborts the run: the run is
\* aborted only before any task exists, a run whose tasks all ended returns,
\* and a failed person is returned with an empty profile.
C4_EntityFailureContained ==
    /\ run = "aborted" => tasks = <<>>
    /\ run = "returned" => Range(enriched) = DOMAIN people
    /\ \A i \in DOMAIN tasks : tasks[i].pc = "raised" => profile[i] = EmptyProfile

\* C8: a request for a name whose resolution is stored in the cache returns
\* the stored sequence, also an empty one, and issues no lookup: the task
\* goes from the call straight to its end, and the cache is left as it was.
C8_CachedNameNoLookup ==
    [][\A i \in DOMAIN tasks :
          (/\ tasks[i].pc \in BeforeFind
           /\ tasks'[i].pc \notin BeforeFind \cup {"raised"}
           /\ people[i].name \in DOMAIN username_cache)
          => /\ tasks'[i].pc = "done"
             /\ tasks'[i].variants = username_cache[people[i].name]
             /\ Active' = Active \ {i}
             /\ username_cache' = username_cache
             /\ resolutions' = resolutions
             /\ cache_writes' = cache_writes]_vars

\* two tasks asked for one name, one resolution was run and stored an empty
\* sequence, and the other task was served from the cache
C8_Witness ==
    \E i, j \in DOMAIN tasks :
        /\ i # j
        /\ people[i].name = people[j].name
        /\ tasks[i].pc = "done" /\ tasks[j].pc = "done"
        /\ people[i].name \in DOMAIN username_cache
        /\ username_cache[people[i].name] = <<>>
        /\ resolutions[people[i].name] = 1

\* C9: the cache entry of a name is assigned at most once in a run.
C9_CacheWrittenOnce == \A n \in Names : cache_writes[n] <= 1

\* C15: the cache is keyed by the normalised name: a request for a name whose
\* normal form is that of a name stored in the cache returns the stored
\* sequence and issues no lookup.
C15_CacheKeyedByNormalizedName ==
    [][\A i \in DOMAIN tasks :
          (/\ tasks[i].pc \in BeforeFind
           /\ tasks'[i].pc \notin BeforeFind \cup {"raised"}
           /\ \E n \in DOMAIN username_cache : normalize(n) = normalize(people[i].name))
          => /\ tasks'[i].pc = "done"
             /\ \E n \in DOMAIN username_cache :
                   /\ normalize(n) = normalize(people[i].name)
                   /\ tasks'[i].variants = username_cache[n]
             /\ resolutions' = resolutions]_vars

\* C18: the list a run returns is a permutation of the extracted persons in
\* the order in which their tasks finished, and the profile of a person is
\* assigned once, by the person's own task: a finished task stays as it is,
\* a task that finishes is queued once, the persons are appended in the order
\* of the queue, a profile changes only in the step in which its own task
\* finishes, and a returned run holds every person exactly once.
C18_ReturnedIsPermutation ==
    [][/\ \A i \in DOMAIN tasks :
             /\ tasks[i].pc = "done" => (tasks'[i] = tasks[i] /\ profile'[i] = profile[i])
             /\ profile'[i] # profile[i] => tasks'[i].pc = "done"
             /\ (tasks[i].pc # "done" /\ tasks'[i].pc = "done") =>
                   completed' = Append(completed, i)
       /\ enriched' # enriched =>
             /\ completed # <<>>
             /\ enriched' = Append(enriched, Head(completed))
             /\ completed' = Tail(completed)
       /\ run' = "returned" =>
             /\ Len(enriched') = Len(people')
             /\ NoDuplicates(enriched')
             /\ Range(enriched') = DOMAIN people'
             /\ \A i \in DOMAIN tasks' : tasks'[i].pc = "done"]_vars

\* a run over two persons returned them in the reverse of their order on the
\* page
C18_Witness ==
    /\ run = "returned"
    /\ enriched = <<2, 1>>

(***************************************************************************)
(* Properties of one enrichment task (SpecSolo).                           *)
(***************************************************************************)
\* C12: within a task the lookup of the explicit id is over before the first
\* lookup of a generated candidate is issued, and the candidates are looked up
\* one at a time in the order of the candidate list: while the explicit lookup
\* is in flight no candidate was issued, a task with an explicit id issues its
\* first candidate in the step that ends the explicit lookup, the first
\* candidate issued is the first of the list, a step goes on with the same
\* candidate or issues the next one, and the task ends after the last one.
C12_ExplicitThenCandidatesInOrder ==
    [][\A i \in DOMAIN tasks :
          /\ tasks'[i].pc = "explicit" =>
                /\ tasks[i].pc \in {"detail", "explicit"}
                /\ tasks'[i].idx = 0
                /\ tasks'[i].candidates = <<>>
          /\ (tasks[i].pc # "cand" /\ tasks'[i].pc = "cand") =>
                /\ tasks'[i].main_hn # <<>> => tasks[i].pc = "explicit"
                /\ tasks'[i].candidates = candidates(people[i].name)
                /\ tasks'[i].idx = 1
          /\ tasks[i].pc = "cand" =>
                /\ tasks'[i].pc \in {"cand", "done", "raised"}
                /\ tasks'[i].pc = "cand" =>
                      /\ tasks'[i].candidates = tasks[i].candidates
                      /\ tasks'[i].idx \in {tasks[i].idx, tasks[i].idx + 1}
                /\ tasks'[i].pc = "done" => tasks[i].idx = Len(tasks[i].candidates)]_vars

\* a task with an explicit id whose explicit lookup returned a match has the
\* lookup of its second candidate in flight
C12_Witness ==
    \E i \in DOMAIN tasks :
        /\ tasks[i].pc = "cand"
        /\ tasks[i].main_hn # <<>>
        /\ tasks[i].hn_profiles # <<>>
        /\ tasks[i].idx = 2

\* C13: a task with an explicit id looks that id up once, in the explicit
\* lookup, and never as a generated candidate: no candidate lookup in flight
\* is for the explicit id.
C13_ExplicitIdNotLookedUpAgain ==
    \A i \in DOMAIN tasks :
        (tasks[i].pc = "cand" /\ tasks[i].main_hn # <<>>)
            => tasks[i].candidates[tasks[i].idx] # tasks[i].main_hn

\* s can be got from t by leaving elements out
RECURSIVE IsSubSeq(_, _)
IsSubSeq(s, t) ==
    IF s = <<>> THEN TRUE
    ELSE IF t = <<>> THEN FALSE
    ELSE IF Head(s) = Head(t) THEN IsSubSeq(Tail(s), Tail(t))
    ELSE IsSubSeq(s, Tail(t))

IsPrefix(s, t) == Len(s) <= Len(t) /\ s = SubSeq(t, 1, Len(s))

\* C14: the matches of a profile are in discovery order.  The matches found
\* for the candidates are collected in the order of the lookups; what the
\* resolution returns keeps that order; and in a finished task the profile
\* starts with the match of the explicit lookup, whenever that lookup returned
\* one, followed by matches of the generated candidates in their order.
C14_DiscoveryOrder ==
    [][\A i \in DOMAIN tasks :
          /\ (tasks[i].pc = "cand" /\ tasks'[i].pc = "cand") =>
                IsPrefix(tasks[i].details_list, tasks'[i].details_list)
          /\ (tasks[i].pc = "cand" /\ tasks'[i].pc = "done") =>
                \/ IsSubSeq(tasks'[i].variants, tasks[i].details_list)
                \/ /\ tasks'[i].variants # <<>>
                   /\ IsSubSeq(SubSeq(tasks'[i].variants, 1, Len(tasks'[i].variants) - 1),
                               tasks[i].details_list)
                   /\ tasks'[i].variants[Len(tasks'[i].variants)]
                         \notin Range(tasks[i].details_list)
          /\ tasks'[i].pc = "done" =>
                LET h == profile'[i].hn_profiles
                    e == tasks'[i].hn_profiles
                IN /\ IsPrefix(e, h)
                   /\ IsSubSeq(SubSeq(h, Len(e) + 1, Len(h)), tasks'[i].variants)]_vars

\* the explicit lookup returned a match and a generated candidate another
\* one: the profile holds the explicit match and then the generated one
C14_Witness ==
    \E i \in DOMAIN tasks :
        /\ tasks[i].pc = "done"
        /\ tasks[i].hn_profiles # <<>>
        /\ Len(profile[i].hn_profiles) >= 2
        /\ profile[i].hn_profiles[1] # profile[i].hn_profiles[2]

\* C16: the resolution of a name without tokens returns the empty sequence
\* at once: the task goes from the call straight to its end with no variants
\* and no candidate, never has a candidate lookup in flight, and the cache and
\* the count of resolutions are left as they were.
C16_NoTokensNoLookup ==
    [][\A i \in DOMAIN tasks :
          split(normalize(people[i].name)) = <<>> =>
             /\ tasks'[i].pc # "cand"
             /\ (tasks[i].pc \in BeforeFind /\ tasks'[i].pc \notin BeforeFind \cup {"raised"})
                   => /\ tasks'[i].pc = "done"
                      /\ tasks'[i].variants = <<>>
                      /\ tasks'[i].candidates = <<>>
                      /\ profile'[i].hn_profiles = tasks'[i].hn_profiles
                      /\ username_cache' = username_cache
                      /\ resolutions' = resolutions
                      /\ cache_writes' = cache_writes]_vars

\* a person whose name is not empty and has no token, with an explicit id,
\* was enriched
C16_Witness ==
    \E i \in DOMAIN tasks :
        /\ tasks[i].pc = "done"
        /\ people[i].name # <<>>
        /\ split(normalize(people[i].name)) = <<>>
        /\ tasks[i].main_hn # <<>>

\* C20: in a finished task with an explicit id, a match of the profile whose
\* username is the explicit id is the first one and the explicit lookup
\* returned it: no match of a generated candidate has that username, whether
\* the explicit lookup returned a match or not.
C20_ExplicitIdOnlyFromExplicitLookup ==
    \A i \in DOMAIN tasks :
        (tasks[i].pc = "done" /\ tasks[i].main_hn # <<>>) =>
            \A k \in 1..Len(profile[i].hn_profiles) :
                profile[i].hn_profiles[k].username = tasks[i].main_hn
                    => (k = 1 /\ tasks[i].hn_profiles # <<>>)

\* the explicit lookup returned no match, a generated candidate resolved to
\* the explicit id, and the profile has no match with that username
C20_Witness ==
    \E i \in DOMAIN tasks :
        /\ tasks[i].pc = "done"
        /\ tasks[i].main_hn # <<>>
        /\ tasks[i].hn_profiles = <<>>
        /\ \E k \in 1..Len(tasks[i].variants) :
              tasks[i].variants[k].username = tasks[i].main_hn
        /\ \A k \in 1..Len(profile[i].hn_profiles) :
              profile[i].hn_profiles[k].username # tasks[i].main_hn

\* C19: once the persons are extracted, enrich_profiles eventually returns.
C19_RunReturns == (run = "enriching") ~> (run = "returned")

(***************************************************************************)
(* Properties of src/table.py (SpecTop, SpecExport).                       *)
(***************************************************************************)
\* the positions of the matches whose karma is a number
Numeric(hn_profiles) ==
    {k \in 1..Len(hn_profiles) : int(hn_profiles[k].karma).kind = "int"}

Score(hn_profiles, k) == int(hn_profiles[k].karma).value

\* the first of the matches with the largest numeric karma
FirstBest(hn_profiles) ==
    CHOOSE k \in Numeric(hn_profiles) :
        /\ \A j \in Numeric(hn_profiles) : Score(hn_profiles, j) <= Score(hn_profiles, k)
        /\ \A j \in Numeric(hn_profiles) : j < k => Score(hn_profiles, j) < Score(hn_profiles, k)

\* C11: whenever some match of the list has a numeric karma, the selection
\* does not fail and returns the first of the matches with the largest numeric
\* karma: matches with an absent or unparseable karma rank below every numeric
\* one.
C11_TopIsFirstMaxNumeric ==
    (table.state \in {"returned", "raised"} /\ Numeric(table.hn_profiles) # {}) =>
        /\ table.state = "returned"
        /\ table.result = <<table.hn_profiles[FirstBest(table.hn_profiles)]>>

\* C17: a finished export wrote one record per person, in the order of the
\* persons, also for a person without a match or without a usable top match,
\* and the Email of a record is the username followed by the domain when the
\* record has a username and empty otherwise.
C17_OneRowPerPerson ==
    table.state = "closed" =>
        /\ Len(table.rows) = Len(table.users)
        /\ \A k \in 1..Len(table.rows) :
              /\ table.rows[k].Name = table.users[k].name
              /\ table.rows[k].Email =
                    IF table.rows[k].HN_Username # <<>>
                    THEN table.rows[k].HN_Username \o EmailDomain
                    ELSE <<>>

====
